---- MODULE Spec2Model ----
(***************************************************************************)
(* Model of similar_lib/src/main.rs: building a highlight index from a     *)
(* literal pattern (build_highlight_index), classifying a character diff   *)
(* (main), folding the classification into counts (calculate_stats) and    *)
(* re-anchoring the highlight index on the edited text                     *)
(* (update_highlight_index).                                               *)
(*                                                                         *)
(* A char is its Unicode scalar value, a text is a sequence of chars.      *)
(* Rust's &str is UTF-8: str::find, str::len and slicing count bytes,      *)
(* chars().nth counts chars; both views are modelled.                      *)
(***************************************************************************)
EXTENDS Integers, Sequences, FiniteSets, TLC

VARIABLES pc, old, value, start, current_highlight_index,
          new, diff, change_details, updated_highlight_index, stats, cycle

vars == <<pc, old, value, start, current_highlight_index,
          new, diff, change_details, updated_highlight_index, stats, cycle>>

\* ------------------------------------------------------------- bounds
MaxLen == 3
MaxPat == 2
MaxCycles == 2
MaxScript == 3

\* 'a', 'b', U+00E9 (two bytes in UTF-8)
Alphabet == {97, 98, 233}
\* U+0001 and U+0002 (their byte can equal a position in a change list), 'a'
StatsAlphabet == {1, 2, 97}
\* 'a', 'b', 'c': 'b' occurs in old texts only
OldAlphabet == {97, 98, 99}
\* 'a', 'c', 'x': 'x' occurs in new texts only
NewAlphabet == {97, 99, 120}

TextsOver(A, n) == UNION {[1..k -> A] : k \in 0..n}

\* the one Uuid main creates, and a second one for maps with two annotations
id == "u1"
Uuids == {"u1", "u2"}

EmptyMap == [u \in {} |-> <<>>]

\* ------------------------------------------------------------- UTF-8
RECURSIVE Bytes(_)
Utf8(c) == IF c < 128 THEN <<c>> ELSE <<192 + (c \div 64), 128 + (c % 64)>>
Bytes(t) == IF t = <<>> THEN <<>> ELSE Utf8(Head(t)) \o Bytes(Tail(t))

\* str::is_char_boundary on the byte string b
IsCharBoundary(b, i) ==
    \/ i = 0
    \/ i = Len(b)
    \/ i < Len(b) /\ (b[i + 1] < 128 \/ b[i + 1] >= 192)

\* str::find: byte offset of the first occurrence of needle in hay, -1 for None
MatchAt(hay, needle, p) ==
    /\ p + Len(needle) <= Len(hay)
    /\ \A k \in 1..Len(needle) : hay[p + k] = needle[k]
Find(hay, needle) ==
    IF \E p \in 0..Len(hay) : MatchAt(hay, needle, p)
    THEN CHOOSE p \in 0..Len(hay) :
            /\ MatchAt(hay, needle, p)
            /\ \A q \in 0..(p - 1) : ~MatchAt(hay, needle, q)
    ELSE -1

\* &s[from..] on bytes
SliceFrom(b, from) == SubSeq(b, from + 1, Len(b))

\* a..b as a sequence (Range<usize> iterated by Vec::extend)
RangeSeq(a, b) == [k \in 1..(b - a) |-> a + k - 1]

\* HashMap::entry(id).or_default()
OrDefault(m, u) == IF u \in DOMAIN m THEN m[u] ELSE <<>>
\* HashMap::insert / writing through the entry
MapPut(m, u, v) == [w \in DOMAIN m \cup {u} |-> IF w = u THEN v ELSE m[w]]

\* ------------------------------------------------------------- build_highlight_index
\* One evaluation of the loop condition `old[start..].find(value)`.
SliceOk == start <= Len(Bytes(old)) /\ IsCharBoundary(Bytes(old), start)
FoundPos == Find(SliceFrom(Bytes(old), start), Bytes(value))

\* old[start..] panics: start is past the end or inside a char
BuildSlicePanic ==
    /\ pc = "build"
    /\ ~SliceOk
    /\ pc' = "build_panic"
    /\ UNCHANGED <<old, value, start, current_highlight_index,
                   new, diff, change_details, updated_highlight_index, stats, cycle>>

\* loop body: a match at start + pos extends the entry and the search resumes one byte on
BuildMatch ==
    /\ pc = "build"
    /\ SliceOk
    /\ FoundPos >= 0
    /\ LET actual_pos == start + FoundPos
       IN /\ current_highlight_index' =
                MapPut(current_highlight_index, id,
                       OrDefault(current_highlight_index, id)
                           \o RangeSeq(actual_pos, actual_pos + Len(Bytes(value))))
          /\ start' = actual_pos + 1
    /\ UNCHANGED <<pc, old, value, new, diff, change_details,
                   updated_highlight_index, stats, cycle>>

\* find returned None: the map is returned to main
BuildReturn ==
    /\ pc = "build"
    /\ SliceOk
    /\ FoundPos < 0
    /\ pc' = "built"
    /\ UNCHANGED <<old, value, start, current_highlight_index,
                   new, diff, change_details, updated_highlight_index, stats, cycle>>

\* ------------------------------------------------------------- TextDiff::from_chars
\* iter_all_changes(): one change per char, tagged Equal, Delete or Insert.
Change(t, c) == [tag |-> t, value |-> c]

RECURSIVE EditScripts(_, _)
\* every ordered list of changes that accounts for each char of o (Delete or Equal)
\* and each char of n (Insert or Equal) exactly once, in order
EditScripts(o, n) ==
    IF o = <<>> /\ n = <<>> THEN {<<>>}
    ELSE (IF o # <<>>
          THEN {<<Change("Delete", Head(o))>> \o s : s \in EditScripts(Tail(o), n)}
          ELSE {})
         \cup
         (IF n # <<>>
          THEN {<<Change("Insert", Head(n))>> \o s : s \in EditScripts(o, Tail(n))}
          ELSE {})
         \cup
         (IF o # <<>> /\ n # <<>> /\ Head(o) = Head(n)
          THEN {<<Change("Equal", Head(o))>> \o s : s \in EditScripts(Tail(o), Tail(n))}
          ELSE {})

TagCount(s, t) == Cardinality({k \in 1..Len(s) : s[k].tag = t})

\* a Replace op yields its deletions before its insertions
DeletesFirst(s) ==
    \A k \in 1..(Len(s) - 1) : ~(s[k].tag = "Insert" /\ s[k + 1].tag = "Delete")

\* The Myers differ returns a shortest edit script; which one of several shortest
\* scripts it returns is left open.
TextDiffFromChars(o, n) ==
    LET all == {s \in EditScripts(o, n) : DeletesFirst(s)}
    IN {s \in all : \A r \in all : TagCount(r, "Equal") <= TagCount(s, "Equal")}

\* the shortest edit script of o and n is unique: the differ's output is then
\* determined, whichever shortest script it prefers otherwise
UniqueDiff(o, n) == Cardinality(TextDiffFromChars(o, n)) = 1

\* ------------------------------------------------------------- main: classification
\* lines 33-80: one ChangeDetail per change, index = position in the change list
ChangeType(idx, change) ==
    IF change.tag = "Equal"
    THEN (IF idx = Utf8(change.value)[1] THEN "EqualIndex" ELSE "EqualDifferentIndex")
    ELSE IF change.tag = "Delete" THEN "Deletion" ELSE "Insertion"

Classify(changes) ==
    [k \in 1..Len(changes) |->
        [index |-> k - 1,
         value |-> changes[k].value,
         change_type |-> ChangeType(k - 1, changes[k])]]

\* ------------------------------------------------------------- calculate_stats
ChangeStatsDefault == [total_changes |-> 0, unchanged |-> 0, insertions |-> 0, deletions |-> 0]

\* variant: only the EqualIndex sub-case counts as unchanged
StatsStepEqualIndexOnly(st, detail) ==
    LET t == [st EXCEPT !.total_changes = @ + 1]
    IN IF detail.change_type = "EqualIndex"
       THEN [t EXCEPT !.unchanged = @ + 1]
       ELSE IF detail.change_type = "Insertion"
       THEN [t EXCEPT !.insertions = @ + 1]
       ELSE [t EXCEPT !.deletions = @ + 1]

StatsStep(st, detail) ==
    LET t == [st EXCEPT !.total_changes = @ + 1]
    IN IF detail.change_type \in {"EqualDifferentIndex", "EqualIndex"}
       THEN [t EXCEPT !.unchanged = @ + 1]
       ELSE IF detail.change_type = "Insertion"
       THEN [t EXCEPT !.insertions = @ + 1]
       ELSE [t EXCEPT !.deletions = @ + 1]

RECURSIVE Fold(_, _)
Fold(st, details) ==
    IF details = <<>> THEN st ELSE Fold(StatsStep(st, Head(details)), Tail(details))

calculate_stats(details) == Fold(ChangeStatsDefault, details)

\* ------------------------------------------------------------- update_highlight_index
\* Option::None
None == -1

\* variant: an index past the end is clamped to the last char
NthClamped(o, idx) ==
    IF idx < Len(o) THEN o[idx + 1] ELSE IF o = <<>> THEN None ELSE o[Len(o)]

\* old.chars().nth(idx)
Nth(o, idx) == IF idx < Len(o) THEN o[idx + 1] ELSE None

\* lines 153-156 before unwrap: the chars at the tracked indexes
OriginalChars(o, indexes) == [k \in 1..Len(indexes) |-> Nth(o, indexes[k])]

\* unwrap() on None
UnwrapPanics(chars) == \E k \in 1..Len(chars) : chars[k] = None

RECURSIVE ScanChangesLastNotNext(_, _, _, _, _)
\* variant: the contiguity test compares with the last index itself
ScanChangesLastNotNext(changes, chars, k, first, acc) ==
    IF k > Len(changes) THEN acc
    ELSE IF changes[k].tag # "Equal" THEN ScanChangesLastNotNext(changes, chars, k + 1, first, acc)
    ELSE
      LET new_idx == k - 1
          change_char == changes[k].value
          first2 == IF first = -1 /\ chars # <<>> /\ chars[1] = change_char
                    THEN new_idx ELSE first
      IN IF first2 = -1 THEN ScanChangesLastNotNext(changes, chars, k + 1, first2, acc)
         ELSE IF acc = <<>> \/ new_idx = acc[Len(acc)]
         THEN (IF Len(acc) < Len(chars) /\ chars[Len(acc) + 1] = change_char
               THEN ScanChangesLastNotNext(changes, chars, k + 1, first2, Append(acc, new_idx))
               ELSE IF acc # <<>> THEN acc
               ELSE ScanChangesLastNotNext(changes, chars, k + 1, first2, acc))
         ELSE acc

RECURSIVE ScanChangesAnyTag(_, _, _, _, _)
\* variant: Insert and Delete changes are scanned like Equal ones
ScanChangesAnyTag(changes, chars, k, first, acc) ==
    IF k > Len(changes) THEN acc
    ELSE
      LET new_idx == k - 1
          change_char == changes[k].value
          first2 == IF first = -1 /\ chars # <<>> /\ chars[1] = change_char
                    THEN new_idx ELSE first
      IN IF first2 = -1 THEN ScanChangesAnyTag(changes, chars, k + 1, first2, acc)
         ELSE IF acc = <<>> \/ new_idx = acc[Len(acc)] + 1
         THEN (IF Len(acc) < Len(chars) /\ chars[Len(acc) + 1] = change_char
               THEN ScanChangesAnyTag(changes, chars, k + 1, first2, Append(acc, new_idx))
               ELSE IF acc # <<>> THEN acc
               ELSE ScanChangesAnyTag(changes, chars, k + 1, first2, acc))
         ELSE acc

RECURSIVE ScanChangesSkipGap(_, _, _, _, _)
\* variant: a non-consecutive Equal change is accepted instead of ending the scan
ScanChangesSkipGap(changes, chars, k, first, acc) ==
    IF k > Len(changes) THEN acc
    ELSE IF changes[k].tag # "Equal" THEN ScanChangesSkipGap(changes, chars, k + 1, first, acc)
    ELSE
      LET new_idx == k - 1
          change_char == changes[k].value
          first2 == IF first = -1 /\ chars # <<>> /\ chars[1] = change_char
                    THEN new_idx ELSE first
      IN IF first2 = -1 THEN ScanChangesSkipGap(changes, chars, k + 1, first2, acc)
         ELSE IF acc = <<>> \/ new_idx > acc[Len(acc)]
         THEN (IF Len(acc) < Len(chars) /\ chars[Len(acc) + 1] = change_char
               THEN ScanChangesSkipGap(changes, chars, k + 1, first2, Append(acc, new_idx))
               ELSE IF acc # <<>> THEN acc
               ELSE ScanChangesSkipGap(changes, chars, k + 1, first2, acc))
         ELSE acc

RECURSIVE ScanChanges(_, _, _, _, _)
\* lines 159-186: the loop over the changes from change k on (new_idx = k - 1);
\* first is first_match_index (-1 for None), acc is new_indexes
ScanChanges(changes, chars, k, first, acc) ==
    IF k > Len(changes) THEN acc
    ELSE IF changes[k].tag # "Equal" THEN ScanChanges(changes, chars, k + 1, first, acc)
    ELSE
      LET new_idx == k - 1
          change_char == changes[k].value
          first2 == IF first = -1 /\ chars # <<>> /\ chars[1] = change_char
                    THEN new_idx ELSE first
      IN IF first2 = -1 THEN ScanChanges(changes, chars, k + 1, first2, acc)
         ELSE IF acc = <<>> \/ new_idx = acc[Len(acc)] + 1
         THEN (IF Len(acc) < Len(chars) /\ chars[Len(acc) + 1] = change_char
               THEN ScanChanges(changes, chars, k + 1, first2, Append(acc, new_idx))
               ELSE IF acc # <<>> THEN acc
               ELSE ScanChanges(changes, chars, k + 1, first2, acc))
         ELSE acc

NewIndexes(o, changes, indexes) ==
    ScanChanges(changes, OriginalChars(o, indexes), 1, -1, <<>>)

\* variant: an annotation with an empty new_indexes is inserted too
UpdatedMapKeepEmpty(o, changes, cur) ==
    [u \in DOMAIN cur |-> NewIndexes(o, changes, cur[u])]

\* lines 149-194: the map of the annotations with a non-empty new_indexes
UpdatedMap(o, changes, cur) ==
    LET kept == {u \in DOMAIN cur : NewIndexes(o, changes, cur[u]) # <<>>}
    IN [u \in kept |-> NewIndexes(o, changes, cur[u])]

\* nth(idx).unwrap() panics for some tracked index of some annotation
UpdatePanics(o, cur) == \E u \in DOMAIN cur : UnwrapPanics(OriginalChars(o, cur[u]))

\* ------------------------------------------------------------- main
\* lines 21-80: diff old against the edited text and classify the changes.
\* value and start, the arguments and local of build_highlight_index, are not
\* used again.
MainDiff(texts) ==
    /\ pc \in {"built", "chained"}
    /\ \E n \in texts :
         \E s \in TextDiffFromChars(old, n) :
            /\ new' = n
            /\ diff' = s
            /\ change_details' = Classify(s)
    /\ pc' = "diffed"
    /\ value' = <<>>
    /\ start' = 0
    /\ UNCHANGED <<old, current_highlight_index, updated_highlight_index, stats, cycle>>

\* lines 102-107: update_highlight_index returns, then calculate_stats
MainUpdate ==
    /\ pc = "diffed"
    /\ ~UpdatePanics(old, current_highlight_index)
    /\ updated_highlight_index' = UpdatedMap(old, diff, current_highlight_index)
    /\ stats' = calculate_stats(change_details)
    /\ pc' = "updated"
    /\ UNCHANGED <<old, value, start, current_highlight_index, new, diff,
                   change_details, cycle>>

\* line 155: unwrap on None aborts update_highlight_index, nothing is returned
MainUpdatePanic ==
    /\ pc = "diffed"
    /\ UpdatePanics(old, current_highlight_index)
    /\ pc' = "update_panic"
    /\ UNCHANGED <<old, value, start, current_highlight_index, new, diff,
                   change_details, updated_highlight_index, stats, cycle>>

\* lines 33-80 alone, on a given change list
MainClassify ==
    /\ pc = "classify"
    /\ change_details' = Classify(diff)
    /\ pc' = "classified"
    /\ UNCHANGED <<old, value, start, current_highlight_index, new, diff,
                   updated_highlight_index, stats, cycle>>

\* line 107 alone
MainStats ==
    /\ pc = "classified"
    /\ stats' = calculate_stats(change_details)
    /\ pc' = "counted"
    /\ UNCHANGED <<old, value, start, current_highlight_index, new, diff,
                   change_details, updated_highlight_index, cycle>>

\* The caller takes the remapped index as the annotation index of the next edit
\* cycle, with the new text as its reference text.
NextCycle ==
    /\ pc = "updated"
    /\ cycle < MaxCycles
    /\ old' = new
    /\ current_highlight_index' = updated_highlight_index
    /\ cycle' = cycle + 1
    /\ pc' = "chained"
    /\ new' = <<>>
    /\ diff' = <<>>
    /\ change_details' = <<>>
    /\ updated_highlight_index' = EmptyMap
    /\ stats' = ChangeStatsDefault
    /\ UNCHANGED <<value, start>>

\* ------------------------------------------------------------- specifications
\* main: build the index for one id, then edit cycles
Init ==
    /\ pc = "build"
    /\ old \in TextsOver(Alphabet, MaxLen)
    /\ value \in TextsOver(Alphabet, MaxPat)
    /\ start = 0
    /\ current_highlight_index = EmptyMap
    /\ new = <<>>
    /\ diff = <<>>
    /\ change_details = <<>>
    /\ updated_highlight_index = EmptyMap
    /\ stats = ChangeStatsDefault
    /\ cycle = 1

MainDiffAlphabet == MainDiff(TextsOver(Alphabet, MaxLen))

Next ==
    \/ BuildSlicePanic
    \/ BuildMatch
    \/ BuildReturn
    \/ MainDiffAlphabet
    \/ MainUpdate
    \/ MainUpdatePanic
    \/ NextCycle

Spec == Init /\ [][Next]_vars

\* main, edited only to texts whose diff against the old text is determined
MainDiffUnique == MainDiff({n \in TextsOver(Alphabet, MaxLen) : UniqueDiff(old, n)})

NextUnique ==
    \/ BuildSlicePanic
    \/ BuildMatch
    \/ BuildReturn
    \/ MainDiffUnique
    \/ MainUpdate
    \/ MainUpdatePanic
    \/ NextCycle

SpecUnique == Init /\ [][NextUnique]_vars

\* update_highlight_index as a function of its arguments: any two texts, and a
\* map of one annotation to any strictly ascending index sequence or of two
\* annotations to one position each (the position MaxLen is past the end of
\* every text)
AscendingSeqs(n) ==
    {s \in TextsOver(0..n, n + 1) : \A k \in 1..(Len(s) - 1) : s[k] < s[k + 1]}

SecondAnnotation == {<<0>>, <<MaxLen>>}

IndexMaps ==
    {[u \in {id} |-> s] : s \in AscendingSeqs(MaxLen)}
    \cup {[u \in Uuids |-> IF u = id THEN s ELSE t] :
             s \in {q \in AscendingSeqs(MaxLen) : Len(q) <= 1}, t \in SecondAnnotation}

RemapInputs(determined) ==
    /\ pc = "diffed"
    /\ old \in TextsOver(OldAlphabet, MaxLen)
    /\ new \in TextsOver(NewAlphabet, MaxLen)
    /\ determined => UniqueDiff(old, new)
    /\ diff \in TextDiffFromChars(old, new)
    /\ change_details = Classify(diff)
    /\ current_highlight_index \in IndexMaps
    /\ value = <<>>
    /\ start = 0
    /\ updated_highlight_index = EmptyMap
    /\ stats = ChangeStatsDefault
    /\ cycle = 1

InitRemap == RemapInputs(FALSE)

NextRemap ==
    \/ MainUpdate
    \/ MainUpdatePanic

SpecRemap == InitRemap /\ [][NextRemap]_vars

\* the same, for the pairs of texts whose diff is determined
InitRemapUnique == RemapInputs(TRUE)

SpecRemapUnique == InitRemapUnique /\ [][NextRemap]_vars

\* classification and calculate_stats as functions of the change list: any list
\* of up to MaxScript changes
Changes == {Change(t, c) : t \in {"Equal", "Delete", "Insert"}, c \in StatsAlphabet}

InitStats ==
    /\ pc = "classify"
    /\ diff \in TextsOver(Changes, MaxScript)
    /\ change_details = <<>>
    /\ stats = ChangeStatsDefault
    /\ old = <<>>
    /\ new = <<>>
    /\ value = <<>>
    /\ start = 0
    /\ current_highlight_index = EmptyMap
    /\ updated_highlight_index = EmptyMap
    /\ cycle = 1

NextStats ==
    \/ MainClassify
    \/ MainStats

SpecStats == InitStats /\ [][NextStats]_vars

\* ------------------------------------------------------------- properties
\* the positions a map holds for an annotation, none when the key is absent
Tracked(m, u) == OrDefault(m, u)

StrictlyAscending(q) == \A k \in 1..(Len(q) - 1) : q[k] < q[k + 1]

RECURSIVE AscendingSeqOf(_)
AscendingSeqOf(S) ==
    IF S = {} THEN <<>>
    ELSE LET m == CHOOSE x \in S : \A y \in S : x <= y
         IN <<m>> \o AscendingSeqOf(S \ {m})

SomeIndexOutOfBounds ==
    \E u \in DOMAIN current_highlight_index :
        \E k \in 1..Len(current_highlight_index[u]) :
            current_highlight_index[u][k] >= Len(old)

\* C1: every remapped position is a position of the new text that holds the char
\* the old text holds at the corresponding tracked index.
C1_RemapPreservesChars ==
    pc = "updated" =>
        \A u \in DOMAIN updated_highlight_index :
            \A k \in 1..Len(updated_highlight_index[u]) :
                /\ updated_highlight_index[u][k] < Len(new)
                /\ new[updated_highlight_index[u][k] + 1]
                       = old[current_highlight_index[u][k] + 1]

\* C2 as stated: remapping a text onto itself returns every annotation's positions
\* unchanged.
C2_RemapIdentity ==
    (pc = "updated" /\ new = old) =>
        \A u \in DOMAIN current_highlight_index :
            Tracked(updated_highlight_index, u) = current_highlight_index[u]

\* the positions are one run s, s+1, ..., and the char at s does not occur before s
ContiguousFromFirstOccurrence(t, q) ==
    /\ q # <<>>
    /\ \A k \in 1..(Len(q) - 1) : q[k + 1] = q[k] + 1
    /\ \A j \in 1..q[1] : t[j] # t[q[1] + 1]

\* C2 amended: remapping a text onto itself returns an annotation's positions
\* unchanged when they form one contiguous run whose first char does not occur
\* earlier in the text.
C2_RemapIdentityOfFirstRun ==
    (pc = "updated" /\ new = old) =>
        \A u \in DOMAIN current_highlight_index :
            ContiguousFromFirstOccurrence(old, current_highlight_index[u]) =>
                /\ u \in DOMAIN updated_highlight_index
                /\ updated_highlight_index[u] = current_highlight_index[u]

C2_Witness ==
    /\ pc = "updated"
    /\ new = old
    /\ old = <<99, 97, 99>>
    /\ id \in DOMAIN updated_highlight_index
    /\ current_highlight_index[id] = <<1, 2>>
    /\ updated_highlight_index[id] = <<1, 2>>

\* the positions covered by the occurrences of value in old
OccurrenceStarts == {p \in 0..Len(Bytes(old)) : MatchAt(Bytes(old), Bytes(value), p)}
Covered == UNION {p..(p + Len(Bytes(value)) - 1) : p \in OccurrenceStarts}

\* C3: for a non-empty pattern the index built for the id is the union of the
\* ranges of all occurrences, ascending, each covered position once.
C3_BuildIsAscendingUnion ==
    (pc = "built" /\ value # <<>>) =>
        Tracked(current_highlight_index, id) = AscendingSeqOf(Covered)

\* C4: a zero-length pattern is rejected before scanning: no scan step runs and
\* no entry is created for the id.
C4_EmptyPatternRejectedBeforeScan ==
    (pc \in {"build", "built", "build_panic"} /\ value = <<>>) =>
        /\ start = 0
        /\ id \notin DOMAIN current_highlight_index

\* C5: in chained edit cycles every index the annotation index holds is within
\* bounds of its reference text.
C5_ChainedIndexInBounds ==
    pc = "chained" =>
        \A u \in DOMAIN current_highlight_index :
            \A k \in 1..Len(current_highlight_index[u]) :
                current_highlight_index[u][k] < Len(old)

\* C6: the emitted indices are strictly increasing, no more than the tracked
\* positions, and each is the sequence index of an Equal change.
C6_EmittedIncreasingBoundedEqual ==
    pc = "updated" =>
        \A u \in DOMAIN updated_highlight_index :
            LET q == updated_highlight_index[u]
            IN /\ StrictlyAscending(q)
               /\ Len(q) <= Len(current_highlight_index[u])
               /\ \A k \in 1..Len(q) :
                     /\ q[k] + 1 \in 1..Len(diff)
                     /\ diff[q[k] + 1].tag = "Equal"

C6_Witness ==
    /\ pc = "updated"
    /\ TagCount(diff, "Delete") > 0
    /\ TagCount(diff, "Insert") > 0
    /\ id \in DOMAIN updated_highlight_index
    /\ Len(updated_highlight_index[id]) = 2
    /\ Len(current_highlight_index[id]) = 3

\* no Equal change carries the first char of the annotation's anchor sequence
NoAnchorStart(u) ==
    \/ current_highlight_index[u] = <<>>
    \/ \A k \in 1..Len(diff) :
          ~(diff[k].tag = "Equal"
            /\ diff[k].value = Nth(old, current_highlight_index[u][1]))

\* C7: an annotation whose first anchor char no Equal change carries is absent
\* from the returned map, the map holds no empty position sequence, and the call
\* fails only on an out-of-bounds index, never on such a loss.
C7_TotalLossIsAbsence ==
    /\ pc = "updated" =>
          /\ \A u \in DOMAIN updated_highlight_index : updated_highlight_index[u] # <<>>
          /\ \A u \in DOMAIN current_highlight_index :
                NoAnchorStart(u) => u \notin DOMAIN updated_highlight_index
    /\ pc = "update_panic" => SomeIndexOutOfBounds

C7_Witness ==
    /\ pc = "updated"
    /\ DOMAIN current_highlight_index = Uuids
    /\ current_highlight_index[id] # <<>>
    /\ NoAnchorStart(id)
    /\ DOMAIN updated_highlight_index = Uuids \ {id}

\* the run that starts at the first Equal change carrying chars[1] and goes on
\* while the very next change is Equal and carries the next char
PrefixRun(changes, chars) ==
    LET starts == {k \in 1..Len(changes) :
                      /\ chars # <<>>
                      /\ changes[k].tag = "Equal"
                      /\ changes[k].value = chars[1]}
    IN IF starts = {} THEN <<>>
       ELSE LET m == CHOOSE k \in starts : \A j \in starts : k <= j
                Fits(n) == \A j \in 0..(n - 1) :
                              /\ m + j <= Len(changes)
                              /\ changes[m + j].tag = "Equal"
                              /\ changes[m + j].value = chars[j + 1]
                L == CHOOSE n \in 1..Len(chars) :
                        Fits(n) /\ (n = Len(chars) \/ ~Fits(n + 1))
            IN [j \in 1..L |-> m + j - 2]

\* C8: the remap output is exactly the prefix run, with no other start tried;
\* for old = "abc", new = "axc" and index {0,1} it is {0}.
C8_PrefixOnlyRecovery ==
    pc = "updated" =>
        /\ \A u \in DOMAIN current_highlight_index :
              Tracked(updated_highlight_index, u)
                  = PrefixRun(diff, OriginalChars(old, current_highlight_index[u]))
        /\ (/\ old = <<97, 98, 99>>
            /\ new = <<97, 120, 99>>
            /\ current_highlight_index[id] = <<0, 1>>)
              => Tracked(updated_highlight_index, id) = <<0>>

C8_Witness ==
    /\ pc = "updated"
    /\ old = <<97, 98, 99>>
    /\ new = <<97, 120, 99>>
    /\ diff = <<Change("Equal", 97), Change("Delete", 98),
                Change("Insert", 120), Change("Equal", 99)>>
    /\ current_highlight_index[id] = <<0, 1>>
    /\ updated_highlight_index[id] = <<0>>

\* C9: with a tracked index out of bounds of the old text the call aborts and
\* returns no map; it never returns with such an index skipped or clamped.
C9_OutOfBoundsFailsFast ==
    /\ pc = "updated" => ~SomeIndexOutOfBounds
    /\ pc = "update_panic" =>
          SomeIndexOutOfBounds /\ updated_highlight_index = EmptyMap

C9_Witness ==
    /\ pc = "update_panic"
    /\ DOMAIN current_highlight_index = Uuids
    /\ ~UnwrapPanics(OriginalChars(old, current_highlight_index[id]))
    /\ current_highlight_index[id] # <<>>
    /\ updated_highlight_index = EmptyMap

\* C10: one record per change with index = position in the script; the stats
\* count all changes, the Equal ones of both sub-cases as unchanged, the Insert
\* and Delete ones, and total = unchanged + insertions + deletions.
C10_ClassifierAndStats ==
    /\ pc \in {"classified", "counted"} =>
          /\ Len(change_details) = Len(diff)
          /\ \A k \in 1..Len(diff) :
                /\ change_details[k].index = k - 1
                /\ change_details[k].value = diff[k].value
    /\ pc = "counted" =>
          /\ stats.total_changes = Len(diff)
          /\ stats.unchanged = TagCount(diff, "Equal")
          /\ stats.insertions = TagCount(diff, "Insert")
          /\ stats.deletions = TagCount(diff, "Delete")
          /\ stats.total_changes = stats.unchanged + stats.insertions + stats.deletions

C10_Witness ==
    /\ pc = "counted"
    /\ \E k \in 1..Len(change_details) : change_details[k].change_type = "EqualIndex"
    /\ \E k \in 1..Len(change_details) :
          change_details[k].change_type = "EqualDifferentIndex"
    /\ stats.unchanged = 2
    /\ stats.total_changes = 3

====
